---- MODULE Spec2Model ----
(***************************************************************************)
(* The JSON-to-CSV scripts of YogaMatLabData:                              *)
(*   scripts/python-scripts/analyse-json_3.py  structure discovery loop    *)
(*   scripts/python-scripts/json-to-csv_1.py   one CSV row per product     *)
(*   scripts/python-scripts/json-to-csv_2.py   one CSV row per variant     *)
(* All three read the *.json files of the same input folder, one file per  *)
(* loop iteration.                                                         *)
(*                                                                         *)
(* Representation.  A parsed JSON value is a record tagged with the name   *)
(* of its Python type: "dict" (items: the key/value pairs in insertion     *)
(* order), "list" (elems), "str" (s: the characters, a sequence of         *)
(* one-character strings), "int" (n), "bool" (b), "NoneType".  Dictionary  *)
(* keys, paths and column names are TLA+ strings; every text the scripts   *)
(* slice or scan (examples, HTML) is a sequence of characters.             *)
(* JSON floats are not part of the input universe.                         *)
(***************************************************************************)
EXTENDS Integers, Sequences, FiniteSets, TLC

VARIABLES script, nfiles, idx, pc, file, out, log

vars == <<script, nfiles, idx, pc, file, out, log>>

(***************************************************************************)
(* Bounds of the model.                                                    *)
(***************************************************************************)
\* files in the input folder of one run
MaxFiles == 2
\* elements of a generated list
MaxItems == 2
\* nesting depth of a generated tower of empty mappings
MaxDepth == 2

(***************************************************************************)
(* JSON values.                                                            *)
(***************************************************************************)
None == [t |-> "NoneType"]
IntV(n) == [t |-> "int", n |-> n]
BoolV(b) == [t |-> "bool", b |-> b]
StrV(s) == [t |-> "str", s |-> s]
ListV(elems) == [t |-> "list", elems |-> elems]
DictV(items) == [t |-> "dict", items |-> items]
KV(k, v) == [k |-> k, v |-> v]

\* pandas' missing-value marker in a DataFrame cell
NaN == [t |-> "nan"]

\* key in d
HasKey(d, key) == \E i \in 1..Len(d.items) : d.items[i].k = key

\* d[key], for a key that is in d (json.load keeps the last of duplicate keys;
\* the inputs here have none)
GetKey(d, key) == d.items[CHOOSE i \in 1..Len(d.items) : d.items[i].k = key].v

RECURSIVE Digits(_)
\* decimal digits of a natural number, as characters
Digits(n) ==
    IF n < 10 THEN <<ToString(n)>> ELSE Digits(n \div 10) \o <<ToString(n % 10)>>

\* str(data) of a scalar
PyStr(data) ==
    CASE data.t = "str" -> data.s
      [] data.t = "int" -> IF data.n < 0 THEN <<"-">> \o Digits(-data.n) ELSE Digits(data.n)
      [] data.t = "bool" -> IF data.b THEN <<"T", "r", "u", "e">> ELSE <<"F", "a", "l", "s", "e">>
      [] data.t = "NoneType" -> <<"N", "o", "n", "e">>

(***************************************************************************)
(* analyse-json_3.py: collect_structure                                    *)
(***************************************************************************)
\* the longest example kept whole
ExampleMax == 100
\* the characters kept of a longer one, before "..."
ExampleKeep == 97

\* the comparison written as ">=": a form of exactly 100 characters is cut
TruncateFromMax(example) ==
    IF Len(example) >= ExampleMax
    THEN SubSeq(example, 1, ExampleKeep) \o <<".", ".", ".">>
    ELSE example

\* lines 28-29
TruncateExample(example) ==
    IF Len(example) > ExampleMax
    THEN SubSeq(example, 1, ExampleKeep) \o <<".", ".", ".">>
    ELSE example

\* a default "results=[]": the one list every top-level call appends to,
\* which holds the records of the call before
CarriedResults == out.rows

\* results=None: a fresh list for every top-level call
FreshResults == <<>>

\* new_path = f"{path}/{key}" if path else key
NewPath(path, key) == IF path # "" THEN path \o "/" \o key ELSE key

\* f"{path}/[0]"
FirstItemPath(path) == path \o "/[0]"

\* every item explored, each under the path of the first
AllItems(data) == data.elems

\* the items of a non-empty list that are explored: data[0] alone
ExploredItems(data) == <<data.elems[1]>>

ListRecord(path, data) ==
    [path |-> path, type |-> "list", length |-> IntV(Len(data.elems)),
     example |-> IF Len(data.elems) = 0
                 THEN <<"[", "]">>
                 ELSE <<"[">> \o Digits(Len(data.elems))
                      \o <<" ", "i", "t", "e", "m", "s", "]">>]

PrimitiveRecord(path, data) ==
    [path |-> path, type |-> data.t, length |-> None,
     example |-> TruncateExample(PyStr(data))]

RECURSIVE collect_structure(_, _, _)
RECURSIVE CollectItems(_, _, _, _)
RECURSIVE CollectExplored(_, _, _, _)

\* for key, value in data.items(): collect_structure(value, new_path, results)
CollectItems(items, i, path, results) ==
    IF i > Len(items) THEN results
    ELSE CollectItems(items, i + 1, path,
                      collect_structure(items[i].v, NewPath(path, items[i].k), results))

\* collect_structure(item, f"{path}/[0]", results) for each explored item
CollectExplored(explored, i, path, results) ==
    IF i > Len(explored) THEN results
    ELSE CollectExplored(explored, i + 1, path,
                         collect_structure(explored[i], FirstItemPath(path), results))

\* the mapping test written "isinstance(data, dict) and data": an empty
\* mapping falls to the primitive branch and is recorded as "{}"
collect_structure_truthy(data, path, results) ==
    IF data.t = "dict" /\ Len(data.items) = 0
    THEN Append(results, [path |-> path, type |-> "dict", length |-> None,
                          example |-> <<"{", "}">>])
    ELSE IF data.t = "dict" THEN CollectItems(data.items, 1, path, results)
    ELSE IF data.t = "list" THEN
        IF Len(data.elems) = 0
        THEN Append(results, ListRecord(path, data))
        ELSE CollectExplored(ExploredItems(data), 1, path,
                             Append(results, ListRecord(path, data)))
    ELSE Append(results, PrimitiveRecord(path, data))

collect_structure(data, path, results) ==
    IF data.t = "dict" THEN CollectItems(data.items, 1, path, results)
    ELSE IF data.t = "list" THEN
        IF Len(data.elems) = 0
        THEN Append(results, ListRecord(path, data))
        ELSE CollectExplored(ExploredItems(data), 1, path,
                             Append(results, ListRecord(path, data)))
    ELSE Append(results, PrimitiveRecord(path, data))

(***************************************************************************)
(* Text scanning helpers (the regular expressions of the two strippers,    *)
(* matched by hand).                                                       *)
(***************************************************************************)
\* pat occurs in s at position i
HasPrefixAt(s, i, pat) ==
    /\ i + Len(pat) - 1 <= Len(s)
    /\ \A k \in 1..Len(pat) : s[i + k - 1] = pat[k]

\* the least position >= from where pat occurs in s, or 0
FindFrom(s, pat, from) ==
    LET hits == {j \in from..Len(s) : HasPrefixAt(s, j, pat)}
    IN  IF hits = {} THEN 0 ELSE CHOOSE j \in hits : \A h \in hits : j <= h

\* str.isspace() / the regular expression class \s; "NBSP" stands for U+00A0
IsSpace(c) == c \in {" ", "\n", "\t", "NBSP"}

\* re.IGNORECASE on the letters of the tag names
Lower(c) ==
    CASE c = "P" -> "p" [] c = "B" -> "b" [] c = "R" -> "r" [] c = "L" -> "l"
      [] c = "I" -> "i" [] c = "U" -> "u" [] c = "D" -> "d" [] c = "V" -> "v"
      [] OTHER -> c

LowerSeq(s) == [k \in 1..Len(s) |-> Lower(s[k])]

\* some tag name of names follows the "<" at position i
NameFollows(s, i, names, ignorecase) ==
    \E n \in 1..Len(names) :
        /\ i + Len(names[n]) <= Len(s)
        /\ LET got == SubSeq(s, i + 1, i + Len(names[n]))
           IN  (IF ignorecase THEN LowerSeq(got) ELSE got) = names[n]

RECURSIVE SubBlockTags(_, _, _, _, _)
\* re.sub(r'<(names)[^>]*>', repl, text): the match runs to the first ">"
SubBlockTags(s, i, names, ignorecase, repl) ==
    IF i > Len(s) THEN <<>>
    ELSE LET close == FindFrom(s, <<">">>, i + 1)
         IN  IF s[i] = "<" /\ close # 0 /\ NameFollows(s, i, names, ignorecase)
             THEN <<repl>> \o SubBlockTags(s, close + 1, names, ignorecase, repl)
             ELSE <<s[i]>> \o SubBlockTags(s, i + 1, names, ignorecase, repl)

RECURSIVE SubTags(_, _, _)
\* re.sub(r'<[^>]+>', '', text) with least = 1, re.sub(r'<[^>]*>', '', text)
\* with least = 0: the match runs from a "<" to the first ">" after it
SubTags(s, i, least) ==
    IF i > Len(s) THEN <<>>
    ELSE LET close == FindFrom(s, <<">">>, i + 1)
         IN  IF s[i] = "<" /\ close # 0 /\ close - i - 1 >= least
             THEN SubTags(s, close + 1, least)
             ELSE <<s[i]>> \o SubTags(s, i + 1, least)

\* the position after the run of c that starts at i
RECURSIVE SkipRun(_, _, _)
SkipRun(s, i, c) == IF i <= Len(s) /\ s[i] = c THEN SkipRun(s, i + 1, c) ELSE i

TabsOpen == <<"<", "u", "l", " ", "c", "l", "a", "s", "s", "=">>
TabsWord == <<"t", "a", "b", "s">>
UlClose == <<"<", "/", "u", "l", ">">>

\* the last position of the match of <ul class=["]*tabs["]*.*?>.*?</ul>
\* (re.DOTALL) that starts at i, or 0
TabsMatchEnd(s, i) ==
    IF ~HasPrefixAt(s, i, TabsOpen) THEN 0
    ELSE LET w == SkipRun(s, i + Len(TabsOpen), "\"")
         IN  IF ~HasPrefixAt(s, w, TabsWord) THEN 0
             ELSE LET gt == FindFrom(s, <<">">>, w + Len(TabsWord))
                  IN  IF gt = 0 THEN 0
                      ELSE LET ul == FindFrom(s, UlClose, gt + 1)
                           IN  IF ul = 0 THEN 0 ELSE ul + Len(UlClose) - 1

RECURSIVE SubTabs(_, _)
SubTabs(s, i) ==
    IF i > Len(s) THEN <<>>
    ELSE LET e == TabsMatchEnd(s, i)
         IN  IF e # 0 THEN SubTabs(s, e + 1) ELSE <<s[i]>> \o SubTabs(s, i + 1)

(***************************************************************************)
(* html.unescape (Python standard library), over the entity names and the  *)
(* decimal character references that occur in the inputs.                  *)
(***************************************************************************)
IsDigit(c) == c \in {"0", "1", "2", "3", "4", "5", "6", "7", "8", "9"}

DigitVal(c) ==
    CASE c = "0" -> 0 [] c = "1" -> 1 [] c = "2" -> 2 [] c = "3" -> 3 [] c = "4" -> 4
      [] c = "5" -> 5 [] c = "6" -> 6 [] c = "7" -> 7 [] c = "8" -> 8 [] c = "9" -> 9

RECURSIVE Number(_, _)
\* int(digits) of the first n digits
Number(digits, n) ==
    IF n = 0 THEN 0 ELSE 10 * Number(digits, n - 1) + DigitVal(digits[n])

\* chr(num), for the code points written in the inputs
CharOf(num) ==
    CASE num = 38 -> "&" [] num = 60 -> "<" [] num = 62 -> ">" [] num = 160 -> "NBSP"
      [] OTHER -> "?"

\* html.entities.html5[name] as a one-character text, or the empty text when
\* name is not an entity name
Html5(name) ==
    CASE name \in {<<"a", "m", "p", ";">>, <<"a", "m", "p">>} -> <<"&">>
      [] name \in {<<"l", "t", ";">>, <<"l", "t">>} -> <<"<">>
      [] name \in {<<"g", "t", ";">>, <<"g", "t">>} -> <<">">>
      [] name \in {<<"n", "b", "s", "p", ";">>, <<"n", "b", "s", "p">>} -> <<"NBSP">>
      [] OTHER -> <<>>

\* [^\t\n\f <&#;]
IsNameChar(c) == c \notin {"\t", "\n", "\f", " ", "<", "&", "#", ";"}

\* the position after the run of digits that starts at i
RECURSIVE SkipDigits(_, _)
SkipDigits(s, i) == IF i <= Len(s) /\ IsDigit(s[i]) THEN SkipDigits(s, i + 1) ELSE i

\* the position after the run of at most left name characters that starts at i
RECURSIVE SkipName(_, _, _)
SkipName(s, i, left) ==
    IF left > 0 /\ i <= Len(s) /\ IsNameChar(s[i]) THEN SkipName(s, i + 1, left - 1) ELSE i

\* _replace_charref for a named reference
ReplaceNamed(name) ==
    IF Html5(name) # <<>> THEN Html5(name)
    ELSE LET cuts == {x \in 2..(Len(name) - 1) : Html5(SubSeq(name, 1, x)) # <<>>}
         IN  IF cuts = {} THEN <<"&">> \o name
             ELSE LET x == CHOOSE c \in cuts : \A d \in cuts : d <= c
                  IN  Html5(SubSeq(name, 1, x)) \o SubSeq(name, x + 1, Len(name))

RECURSIVE Unescape(_, _)
\* _charref.sub(_replace_charref, s): &(#[0-9]+;?|[^\t\n\f <&#;]{1,32};?)
Unescape(s, i) ==
    IF i > Len(s) THEN <<>>
    ELSE IF s[i] # "&" THEN <<s[i]>> \o Unescape(s, i + 1)
    ELSE IF i + 2 <= Len(s) /\ s[i + 1] = "#" /\ IsDigit(s[i + 2]) THEN
        LET e == SkipDigits(s, i + 2)
            after == IF e <= Len(s) /\ s[e] = ";" THEN e + 1 ELSE e
            digits == SubSeq(s, i + 2, e - 1)
        IN  <<CharOf(Number(digits, Len(digits)))>> \o Unescape(s, after)
    ELSE
        LET e == SkipName(s, i + 1, 32)
            after == IF e <= Len(s) /\ s[e] = ";" THEN e + 1 ELSE e
        IN  IF e = i + 1 THEN <<"&">> \o Unescape(s, i + 1)
            ELSE ReplaceNamed(SubSeq(s, i + 1, after - 1)) \o Unescape(s, after)

\* html.unescape(s)
unescape(s) == Unescape(s, 1)

(***************************************************************************)
(* json-to-csv_1.py: strip_html                                            *)
(***************************************************************************)
BlockTagsA ==
    << <<"p">>, <<"b", "r">>, <<"l", "i">>, <<"d", "i", "v">>, <<"h", "1">>,
       <<"h", "2">>, <<"h", "3">>, <<"u", "l">> >>

RECURSIVE SplitJoin(_, _, _, _)
\* " ".join(text.split()): acc is the text joined so far, gap whether
\* whitespace was passed since its last word
SplitJoin(s, i, acc, gap) ==
    IF i > Len(s) THEN acc
    ELSE IF IsSpace(s[i]) THEN SplitJoin(s, i + 1, acc, acc # <<>>)
    ELSE SplitJoin(s, i + 1, (IF gap THEN acc \o <<" ">> ELSE acc) \o <<s[i]>>, FALSE)

\* text.strip()
Strip(s) ==
    LET keep == {k \in 1..Len(s) : ~IsSpace(s[k])}
    IN  IF keep = {} THEN <<>>
        ELSE SubSeq(s, CHOOSE k \in keep : \A h \in keep : k <= h,
                       CHOOSE k \in keep : \A h \in keep : h <= k)

\* "not text or not isinstance(text, str)"
NoText(text) == text.t # "str" \/ text.s = <<>>

strip_html(text) ==
    IF NoText(text) THEN StrV(<<>>)
    ELSE LET t1 == SubTabs(text.s, 1)
             t2 == SubBlockTags(t1, 1, BlockTagsA, FALSE, " ")
             t3 == SubTags(t2, 1, 1)
             t4 == unescape(t3)
             t5 == SplitJoin(t4, 1, <<>>, FALSE)
         IN  StrV(Strip(t5))

(***************************************************************************)
(* json-to-csv_2.py: clean_html                                            *)
(***************************************************************************)
BlockTagsB == << <<"b", "r">>, <<"p">>, <<"l", "i">>, <<"u", "l">>, <<"d", "i", "v">> >>

RECURSIVE SubSpaces(_, _)
\* re.sub(r' +', ' ', text)
SubSpaces(s, i) ==
    IF i > Len(s) THEN <<>>
    ELSE IF s[i] = " " THEN <<" ">> \o SubSpaces(s, SkipRun(s, i, " "))
    ELSE <<s[i]>> \o SubSpaces(s, i + 1)

\* the position after the run of whitespace that starts at i
RECURSIVE SkipSpace(_, _)
SkipSpace(s, i) == IF i <= Len(s) /\ IsSpace(s[i]) THEN SkipSpace(s, i + 1) ELSE i

RECURSIVE SubBlankLines(_, _)
\* re.sub(r'\n\s*\n+', '\n\n', text): the match runs from a newline to the
\* last newline of the whitespace after it
SubBlankLines(s, i) ==
    IF i > Len(s) THEN <<>>
    ELSE LET e == SkipSpace(s, i)
             nls == {k \in (i + 1)..(e - 1) : s[k] = "\n"}
         IN  IF s[i] = "\n" /\ nls # {}
             THEN <<"\n", "\n">>
                  \o SubBlankLines(s, (CHOOSE k \in nls : \A h \in nls : h <= k) + 1)
             ELSE <<s[i]>> \o SubBlankLines(s, i + 1)

clean_html(text) ==
    IF text.t # "str" THEN text
    ELSE LET t1 == SubBlockTags(text.s, 1, BlockTagsB, TRUE, "\n")
             t2 == SubTags(t1, 1, 0)
             t3 == SubSpaces(t2, 1)
             t4 == SubBlankLines(t3, 1)
         IN  StrV(Strip(t4))

(***************************************************************************)
(* pandas, as far as the two flatteners use it.  A DataFrame is its column *)
(* names in order and its rows, each a function from the column names to   *)
(* cells.  The products of a file, and the variants of a product, are      *)
(* mappings in every input of the model.                                   *)
(***************************************************************************)
DataFrame(columns, rows) == [columns |-> columns, rows |-> rows]

ColumnSet(df) == {df.columns[k] : k \in 1..Len(df.columns)}

\* the name of a nested field: json_normalize joins with "." and
\* json-to-csv_1.py then replaces "." by "_"; json-to-csv_2.py keeps the ".".
\* No key of the inputs holds a "."
Joined(key_string, sep, key) == IF key_string = "" THEN key ELSE key_string \o sep \o key

RECURSIVE NormaliseJson(_, _, _)
RECURSIVE NormaliseItems(_, _, _, _)

\* _normalise_json / nested_to_record: an empty mapping leaves no field
NormaliseItems(items, i, key_string, sep) ==
    IF i > Len(items) THEN <<>>
    ELSE NormaliseJson(items[i].v, Joined(key_string, sep, items[i].k), sep)
         \o NormaliseItems(items, i + 1, key_string, sep)

NormaliseJson(data, key_string, sep) ==
    IF data.t = "dict" THEN NormaliseItems(data.items, 1, key_string, sep)
    ELSE <<KV(key_string, data)>>

IsNested(kv) == kv.v.t = "dict"
IsFlat(kv) == kv.v.t # "dict"

\* _normalise_json_ordered: the fields that are no mappings first, then the
\* flattened mappings
NormaliseOrdered(product, sep) ==
    SelectSeq(product.items, IsFlat)
    \o NormaliseItems(SelectSeq(product.items, IsNested), 1, "", sep)

RECURSIVE AddKeys(_, _, _)
AddKeys(columns, record, i) ==
    IF i > Len(record) THEN columns
    ELSE AddKeys(IF \E k \in 1..Len(columns) : columns[k] = record[i].k
                 THEN columns ELSE Append(columns, record[i].k),
                 record, i + 1)

RECURSIVE UnionKeys(_, _, _)
\* the columns of DataFrame(records): the keys in the order they first occur
UnionKeys(columns, records, i) ==
    IF i > Len(records) THEN columns
    ELSE UnionKeys(AddKeys(columns, records[i], 1), records, i + 1)

\* the row of one record: a missing field is NaN
RecordRow(record, columns) ==
    [c \in {columns[k] : k \in 1..Len(columns)} |->
        IF \E k \in 1..Len(record) : record[k].k = c
        THEN record[CHOOSE k \in 1..Len(record) : record[k].k = c].v
        ELSE NaN]

FrameOfRecords(records) ==
    LET columns == UnionKeys(<<>>, records, 1)
    IN  DataFrame(columns, [i \in 1..Len(records) |-> RecordRow(records[i], columns)])

\* df[name] = cells: a new column goes last, an existing one is overwritten
SetColumn(df, name, cells) ==
    DataFrame(IF name \in ColumnSet(df) THEN df.columns ELSE Append(df.columns, name),
              [i \in 1..Len(df.rows) |->
                  [c \in ColumnSet(df) \cup {name} |->
                      IF c = name THEN cells[i] ELSE df.rows[i][c]]])

\* df.drop(columns=[name])
DropColumn(df, name) ==
    DataFrame(SelectSeq(df.columns, LAMBDA c : c # name),
              [i \in 1..Len(df.rows) |-> [c \in ColumnSet(df) \ {name} |-> df.rows[i][c]]])

\* df[columns], every name of columns being a column of df
SelectColumns(df, columns) ==
    DataFrame(columns,
              [i \in 1..Len(df.rows) |->
                  [c \in {columns[k] : k \in 1..Len(columns)} |-> df.rows[i][c]]])

\* the outcome of a step that may raise: exc is "" or the exception's name
Ok(df) == [exc |-> "", df |-> df]
Raise(name) == [exc |-> name, df |-> DataFrame(<<>>, <<>>)]

(***************************************************************************)
(* json-to-csv_1.py: one row per product                                   *)
(***************************************************************************)
\* len(x) if isinstance(x, list) else 0
CountOf(x) == IntV(IF x.t = "list" THEN Len(x.elems) ELSE 0)

\* isinstance(x, list) and x
HasFirst(x) == x.t = "list" /\ Len(x.elems) > 0

\* x[0][key] if isinstance(x, list) and x else None: the field, or "raise"
\* when x[0] has no such key
FirstVariantField(x, key) ==
    IF ~HasFirst(x) THEN None
    ELSE IF HasKey(x.elems[1], key) THEN GetKey(x.elems[1], key)
    ELSE [t |-> "raise"]

\* df[name] = df['variants'].apply(lambda x: x[0][key] if ... else None)
MainColumn(df, name, key) ==
    LET cells == [i \in 1..Len(df.rows) |-> FirstVariantField(df.rows[i]["variants"], key)]
    IN  IF \E i \in 1..Len(cells) : cells[i] = [t |-> "raise"]
        THEN Raise("KeyError")
        ELSE Ok(SetColumn(df, name, cells))

\* lines 76-77
DescriptionPlain(df) ==
    IF "body_html" \in ColumnSet(df)
    THEN SetColumn(df, "description_plain",
                   [i \in 1..Len(df.rows) |-> strip_html(df.rows[i]["body_html"])])
    ELSE df

\* line 80
ImagesCount(df) ==
    IF "images" \notin ColumnSet(df) THEN Raise("KeyError")
    ELSE Ok(SetColumn(df, "images_count",
                      [i \in 1..Len(df.rows) |-> CountOf(df.rows[i]["images"])]))

\* lines 81-84
VariantColumns(df) ==
    IF "variants" \notin ColumnSet(df) THEN Raise("KeyError")
    ELSE LET d1 == SetColumn(df, "variants_count",
                             [i \in 1..Len(df.rows) |-> CountOf(df.rows[i]["variants"])])
             r2 == MainColumn(d1, "main_price", "price")
             r3 == IF r2.exc # "" THEN r2 ELSE MainColumn(r2.df, "main_sku", "sku")
         IN  IF r3.exc # "" THEN r3 ELSE MainColumn(r3.df, "available", "available")

\* lines 70-84, for a non-empty list of products
FlattenProducts(products) ==
    LET df == FrameOfRecords([i \in 1..Len(products.elems) |->
                                 NormaliseOrdered(products.elems[i], "_")])
        r1 == ImagesCount(DescriptionPlain(df))
    IN  IF r1.exc # "" THEN r1 ELSE VariantColumns(r1.df)

(***************************************************************************)
(* json-to-csv_2.py: one row per variant                                   *)
(***************************************************************************)
Meta == <<"title", "vendor", "handle", "body_html">>

column_order ==
    <<"variant_id", "variant_title", "variant_option1", "variant_option2",
      "variant_option3", "variant_sku", "variant_requires_shipping", "variant_taxable",
      "variant_featured_image", "variant_available", "variant_price", "variant_grams",
      "variant_compare_at_price", "variant_position", "variant_product_id",
      "variant_created_at", "variant_updated_at",
      "title", "vendor", "handle", "description">>

\* what json_normalize raises on one product, or "": _pull_records on
\* record_path=['variants'], then _pull_field on each name of meta
PullError(obj) ==
    IF ~HasKey(obj, "variants") THEN "KeyError"
    ELSE IF GetKey(obj, "variants").t \notin {"list", "NoneType"} THEN "TypeError"
    ELSE IF \E m \in 1..Len(Meta) : ~HasKey(obj, Meta[m]) THEN "KeyError"
    ELSE ""

\* _pull_records: the variants of a product; null counts as no variants
PullRecords(obj) ==
    IF GetKey(obj, "variants").t = "list" THEN GetKey(obj, "variants").elems ELSE <<>>

\* record_prefix='variant_'
Prefixed(record) == [k \in 1..Len(record) |-> KV("variant_" \o record[k].k, record[k].v)]

RECURSIVE VariantRecords(_, _)
\* the flattened variants of all products, each with its product
VariantRecords(objs, i) ==
    IF i > Len(objs) THEN <<>>
    ELSE LET recs == PullRecords(objs[i])
         IN  [j \in 1..Len(recs) |->
                 [obj |-> objs[i], rec |-> Prefixed(NormaliseOrdered(recs[j], "."))]]
             \o VariantRecords(objs, i + 1)

\* result[k] = the product's field, repeated for each of its variants
AddMeta(df, m, recs) ==
    SetColumn(df, Meta[m], [j \in 1..Len(recs) |-> GetKey(recs[j].obj, Meta[m])])

\* pd.json_normalize(products, record_path=['variants'], meta=[...],
\*                   record_prefix='variant_')
NormalizeVariants(products) ==
    IF products.t = "list" /\ Len(products.elems) = 0 THEN Ok(DataFrame(<<>>, <<>>))
    ELSE IF products.t \notin {"list", "dict"} THEN Raise("NotImplementedError")
    ELSE LET objs == IF products.t = "dict" THEN <<products>> ELSE products.elems
             bad == {i \in 1..Len(objs) : PullError(objs[i]) # ""}
         IN  IF bad # {}
             THEN Raise(PullError(objs[CHOOSE i \in bad : \A b \in bad : i <= b]))
             ELSE LET recs == VariantRecords(objs, 1)
                      d0 == FrameOfRecords([j \in 1..Len(recs) |-> recs[j].rec])
                      d1 == AddMeta(d0, 1, recs)
                      d2 == AddMeta(d1, 2, recs)
                      d3 == AddMeta(d2, 3, recs)
                  IN  Ok(AddMeta(d3, 4, recs))

\* lines 46-47
Description(df) ==
    IF "body_html" \notin ColumnSet(df) THEN Raise("KeyError")
    ELSE Ok(DropColumn(SetColumn(df, "description",
                                 [i \in 1..Len(df.rows) |-> clean_html(df.rows[i]["body_html"])]),
                       "body_html"))

RECURSIVE FillMissing(_, _)
\* lines 59-61: for col in column_order: if col not in df.columns: df[col] = ""
FillMissing(df, k) ==
    IF k > Len(column_order) THEN df
    ELSE FillMissing(IF column_order[k] \in ColumnSet(df) THEN df
                     ELSE SetColumn(df, column_order[k],
                                    [i \in 1..Len(df.rows) |-> StrV(<<>>)]),
                     k + 1)

\* line 63 left out: the frame as it is after the filling
KeepFrame(df) == df

\* line 63: df = df[column_order]
Reorder(df) == SelectColumns(df, column_order)

\* data['products']: the exception it raises, or ""
ProductsError(data) ==
    IF data.t = "dict" THEN (IF HasKey(data, "products") THEN "" ELSE "KeyError")
    ELSE "TypeError"

\* lines 38-63, for one parsed document
FlattenVariants(data) ==
    IF ProductsError(data) # "" THEN Raise(ProductsError(data))
    ELSE LET r1 == NormalizeVariants(GetKey(data, "products"))
             r2 == IF r1.exc # "" THEN r1 ELSE Description(r1.df)
         IN  IF r2.exc # "" THEN r2 ELSE Ok(Reorder(FillMissing(r2.df, 1)))

(***************************************************************************)
(* The input folder: the documents a *.json file may hold.                 *)
(***************************************************************************)
Absent == [t |-> "absent"]

\* "key": value, or nothing when the field is absent
Field(key, value) == IF value = Absent THEN <<>> ELSE <<KV(key, value)>>

Text(n) == [i \in 1..n |-> ToString(i % 10)]

HtmlPlain == <<"<", "p", ">", "H", "i", "<", "/", "p", ">", "<", "p", ">", "Y", "o", "<", "/", "p", ">">>
HtmlAmp == <<"A", " ", "&", "a", "m", "p", ";", " ", "B">>
HtmlEscapedTag == <<"&", "l", "t", ";", "b", "&", "g", "t", ";", "x">>
HtmlDouble == <<"&", "a", "m", "p", ";", "n", "b", "s", "p", ";">>

V1 ==
    DictV(<<KV("id", IntV(1)), KV("title", StrV(<<"S">>)), KV("sku", StrV(<<"A", "1">>)),
            KV("available", BoolV(TRUE)), KV("price", StrV(<<"9", ".", "5">>))>>)
V2 ==
    DictV(<<KV("id", IntV(2)), KV("price", StrV(<<"7">>)), KV("color", StrV(<<"r", "e", "d">>)),
            KV("featured_image", DictV(<<KV("src", StrV(<<"u">>))>>))>>)

VariantChoices ==
    {Absent, None, ListV(<<>>), ListV(<<V1>>), ListV(<<V1, V2>>), ListV(<<V2, V1>>)}

ImageChoices ==
    {Absent, ListV(<<>>), ListV(<<DictV(<<KV("src", StrV(<<"u">>))>>), StrV(<<"v">>)>>)}

BodyChoices ==
    {Absent, None, IntV(5), StrV(<<>>), StrV(HtmlPlain), StrV(HtmlAmp),
     StrV(HtmlEscapedTag), StrV(HtmlDouble)}

\* a product with title, vendor and handle, the given body_html, images and
\* variants, and one more field
Product(body, images, variants, extra) ==
    DictV(<<KV("id", IntV(10)), KV("title", StrV(<<"M", "a", "t">>)),
            KV("handle", StrV(<<"m", "a", "t">>))>>
          \o Field("body_html", body)
          \o <<KV("vendor", StrV(<<"Y">>))>>
          \o extra \o Field("images", images) \o Field("variants", variants))

BaseProduct == Product(StrV(HtmlPlain), ListV(<<>>), ListV(<<V1>>), <<>>)

\* the lists of 1..MaxItems elements
ListElems == {IntV(-7), DictV(<<KV("a", BoolV(FALSE))>>), ListV(<<None, IntV(3)>>)}

GeneratedLists ==
    UNION {{ListV(es) : es \in [1..n -> ListElems]} : n \in 1..MaxItems}

RECURSIVE EmptyTower(_)
\* {} under d keys
EmptyTower(d) == IF d = 0 THEN DictV(<<>>) ELSE DictV(<<KV("m", EmptyTower(d - 1))>>)

EmptyMappings ==
    {EmptyTower(d) : d \in 0..MaxDepth}
    \cup {DictV(<<KV("a", DictV(<<>>)), KV("b", EmptyTower(MaxDepth))>>)}

LongTexts ==
    {StrV(Text(n)) : n \in {ExampleKeep, ExampleMax - 1, ExampleMax, ExampleMax + 1, 150}}

Products ==
    {Product(StrV(HtmlPlain), i, v, <<>>) : i \in ImageChoices, v \in VariantChoices}
    \cup {Product(b, ListV(<<>>), ListV(<<V1>>), <<>>) : b \in BodyChoices}
    \cup {Product(None, Absent, Absent, <<KV("tags", l)>>) : l \in GeneratedLists}
    \cup {Product(None, Absent, ListV(<<>>), <<KV("seo", e)>>) : e \in EmptyMappings}
    \cup {Product(None, ListV(<<>>), Absent, <<KV("note", x)>>) : x \in LongTexts}
    \cup EmptyMappings
    \cup {DictV(<<KV("variants", ListV(<<V2>>))>>)}

PairProducts ==
    {BaseProduct,
     Product(None, Absent, ListV(<<V2>>), <<>>),
     Product(IntV(5), ListV(<<>>), ListV(<<>>), <<>>),
     Product(StrV(HtmlAmp), ListV(<<>>), Absent, <<KV("seo", DictV(<<>>))>>)}

ProductLists ==
    {ListV(<<p>>) : p \in Products}
    \cup {ListV(<<p, q>>) : p \in PairProducts, q \in PairProducts}
    \cup {ListV(<<>>)}

\* a file of the folder: whether its name ends with ".json", whether it
\* parses, and the parsed document
JsonFile(name, data) == [name |-> name, json |-> TRUE, ok |-> TRUE, data |-> data]

Files ==
    {JsonFile("shop.json", DictV(<<KV("products", l)>>)) : l \in ProductLists}
    \cup {JsonFile("list.json", l) :
             l \in {ListV(<<>>), ListV(<<BaseProduct>>), ListV(<<BaseProduct, BaseProduct>>)}}
    \cup {JsonFile("odd.json", d) :
             d \in {IntV(5), None, StrV(<<"x">>), DictV(<<KV("count", IntV(0))>>),
                    DictV(<<KV("products", None)>>)}}
    \cup {[name |-> "broken.json", json |-> TRUE, ok |-> FALSE, data |-> None],
          [name |-> "notes.txt", json |-> FALSE, ok |-> FALSE, data |-> None]}

(***************************************************************************)
(* The three loops.  out is what the iteration wrote, log what it printed  *)
(* last (with the exception it reports or dies of).                        *)
(***************************************************************************)
NoOutput == [written |-> FALSE, columns |-> <<>>, rows |-> <<>>]
Written(columns, rows) == [written |-> TRUE, columns |-> columns, rows |-> rows]
Printed(kind, f, e) == [kind |-> kind, name |-> f.name, exc |-> e]

Scripts == {"analyse-json_3", "json-to-csv_1", "json-to-csv_2"}

\* analyse-json_3.py lines 63-68
ProductsOrSelf(data) ==
    IF data.t = "dict" /\ HasKey(data, "products") THEN GetKey(data, "products")
    ELSE IF data.t = "list" THEN data
    ELSE ListV(<<data>>)

\* analyse-json_3.py lines 58-92: one iteration, what it writes and prints
AnalyseOne(f) ==
    IF ~f.ok THEN [out |-> NoOutput, log |-> Printed("error", f, "JSONDecodeError")]
    ELSE LET products == ProductsOrSelf(f.data)
         IN  IF products.t # "list"
             THEN [out |-> NoOutput, log |-> Printed("error", f, "TypeError")]
             ELSE IF Len(products.elems) = 0
             THEN [out |-> NoOutput, log |-> Printed("skipping", f, "")]
             ELSE [out |-> Written(<<"path", "type", "length", "example">>,
                                   collect_structure(products.elems[1], "", FreshResults)),
                   log |-> Printed("saved", f, "")]

AnalyseFile(f) ==
    /\ script = "analyse-json_3" /\ pc = "loop" /\ idx < nfiles
    /\ f.json
    /\ \E r \in {AnalyseOne(f)} :
          /\ out' = r.out
          /\ log' = r.log
    /\ file' = f
    /\ idx' = idx + 1
    /\ UNCHANGED <<script, nfiles, pc>>

\* json-to-csv_1.py lines 48-94: one iteration; die is the uncaught exception
ProductOne(f) ==
    IF ~f.json THEN [out |-> NoOutput, log |-> log, die |-> ""]
    ELSE IF ~f.ok
    THEN [out |-> NoOutput, log |-> Printed("traceback", f, "JSONDecodeError"),
          die |-> "JSONDecodeError"]
    ELSE IF ~(f.data.t = "list" \/ (f.data.t = "dict" /\ HasKey(f.data, "products")))
    THEN [out |-> NoOutput, log |-> Printed("warning", f, ""), die |-> ""]
    ELSE LET products == IF f.data.t = "list" THEN f.data ELSE GetKey(f.data, "products")
         IN  IF products.t # "list" \/ Len(products.elems) = 0
             THEN [out |-> NoOutput, log |-> Printed("no products", f, ""), die |-> ""]
             ELSE LET r == FlattenProducts(products)
                  IN  IF r.exc # ""
                      THEN [out |-> NoOutput, log |-> Printed("traceback", f, r.exc),
                            die |-> r.exc]
                      ELSE [out |-> Written(r.df.columns, r.df.rows),
                            log |-> Printed("saved", f, ""), die |-> ""]

ProductFile(f) ==
    /\ script = "json-to-csv_1" /\ pc = "loop" /\ idx < nfiles
    /\ \E r \in {ProductOne(f)} :
          /\ out' = r.out
          /\ log' = r.log
          /\ pc' = IF r.die # "" THEN "crashed" ELSE pc
    /\ file' = f
    /\ idx' = idx + 1
    /\ UNCHANGED <<script, nfiles>>

\* json-to-csv_2.py lines 31-70: one iteration
VariantOne(f) ==
    IF ~f.ok
    THEN [out |-> NoOutput, log |-> Printed("traceback", f, "JSONDecodeError"),
          die |-> "JSONDecodeError"]
    ELSE LET r == FlattenVariants(f.data)
         IN  IF r.exc # ""
             THEN [out |-> NoOutput, log |-> Printed("traceback", f, r.exc), die |-> r.exc]
             ELSE [out |-> Written(r.df.columns, r.df.rows),
                   log |-> Printed("converted", f, ""), die |-> ""]

VariantFile(f) ==
    /\ script = "json-to-csv_2" /\ pc = "loop" /\ idx < nfiles
    /\ f.json
    /\ \E r \in {VariantOne(f)} :
          /\ out' = r.out
          /\ log' = r.log
          /\ pc' = IF r.die # "" THEN "crashed" ELSE pc
    /\ file' = f
    /\ idx' = idx + 1
    /\ UNCHANGED <<script, nfiles>>

\* the loop is over: the script ends
Finish ==
    /\ pc = "loop" /\ idx = nfiles
    /\ pc' = "done"
    /\ UNCHANGED <<script, nfiles, idx, file, out, log>>

NoFile == [name |-> "", json |-> FALSE, ok |-> FALSE, data |-> None]

Init ==
    /\ script \in Scripts
    /\ nfiles \in 0..MaxFiles
    /\ idx = 0
    /\ pc = "loop"
    /\ file = NoFile
    /\ out = NoOutput
    /\ log = [kind |-> "", name |-> "", exc |-> ""]

Next ==
    \/ \E f \in Files : AnalyseFile(f)
    \/ \E f \in Files : ProductFile(f)
    \/ \E f \in Files : VariantFile(f)
    \/ Finish

Spec == Init /\ [][Next]_vars

TypeOK ==
    /\ script \in Scripts
    /\ idx \in 0..nfiles
    /\ pc \in {"loop", "done", "crashed"}
    /\ file \in Files \cup {NoFile}

(***************************************************************************)
(* Helpers of the properties.                                              *)
(***************************************************************************)
\* the products of a document shaped {"products": [...]} or [...]
ProductsOf(data) == IF data.t = "list" THEN data ELSE GetKey(data, "products")

\* the document is {"products": [p, ...]} or [p, ...], with a product
HoldsProducts(f) ==
    /\ f.json /\ f.ok
    /\ f.data.t = "list" \/ (f.data.t = "dict" /\ HasKey(f.data, "products"))
    /\ ProductsOf(f.data).t = "list"
    /\ Len(ProductsOf(f.data).elems) > 0

\* malformed JSON, or neither a mapping with "products" nor a list
BadFile(f) ==
    /\ f.json
    /\ ~f.ok \/ ~(f.data.t = "list" \/ (f.data.t = "dict" /\ HasKey(f.data, "products")))

FieldOr(product, key) == IF HasKey(product, key) THEN GetKey(product, key) ELSE Absent

IsList(v) == v.t = "list"

RECURSIVE SumVariants(_, _)
\* the sum of the lengths of the variants lists of products i, i+1, ...
SumVariants(products, i) ==
    IF i > Len(products) THEN 0
    ELSE (IF IsList(FieldOr(products[i], "variants"))
          THEN Len(GetKey(products[i], "variants").elems) ELSE 0)
         + SumVariants(products, i + 1)

\* a "<...>" span with something between the brackets
HasTag(s) == \E i, j \in 1..Len(s) : s[i] = "<" /\ s[j] = ">" /\ j > i + 1

\* a character reference that html.unescape would still decode
HasEntity(s) == unescape(s) # s

\* the product analyse-json_3.py takes the structure from
FirstProduct(f) == ProductsOrSelf(f.data).elems[1]

Analysed == script = "analyse-json_3" /\ out.written

(***************************************************************************)
(* C1: a file that is malformed JSON or has an unexpected top-level shape  *)
(* never aborts the run of any of the three scripts: the iteration ends    *)
(* with the loop still running and a message naming the file.              *)
(***************************************************************************)
C1_BadFileNeverAborts ==
    (idx > 0 /\ BadFile(file)) => (pc # "crashed" /\ log.name = file.name)

(***************************************************************************)
(* C2: in json-to-csv_2.py a product without variants, or with an empty    *)
(* variants list, is skipped without raising, and the rows written for a   *)
(* file number the sum of the lengths of its products' variants lists.     *)
(***************************************************************************)
C2_RowsAreSumOfVariants ==
    (/\ script = "json-to-csv_2" /\ idx > 0
     /\ HoldsProducts(file) /\ file.data.t = "dict"
     /\ \A i \in 1..Len(ProductsOf(file.data).elems) :
           LET product == ProductsOf(file.data).elems[i]
           IN  /\ \A m \in 1..Len(Meta) : HasKey(product, Meta[m])
               /\ FieldOr(product, "variants").t \in {"absent", "list"})
    => (/\ pc # "crashed"
        /\ out.written
        /\ Len(out.rows) = SumVariants(ProductsOf(file.data).elems, 1))

(***************************************************************************)
(* C3: in json-to-csv_1.py every product of a non-empty product list gives *)
(* exactly one row and nothing is raised: variants_count and images_count  *)
(* are the lengths of the lists (0 when absent or no list), main_price,    *)
(* main_sku and available the fields of variants[0], or null when there is *)
(* no first variant or it lacks the key.                                   *)
(***************************************************************************)
C3_OneRowPerProduct ==
    (/\ script = "json-to-csv_1" /\ idx > 0 /\ HoldsProducts(file)
     /\ \A i \in 1..Len(ProductsOf(file.data).elems) :
           HasKey(ProductsOf(file.data).elems[i], "title"))
    => (/\ pc # "crashed"
        /\ out.written
        /\ Len(out.rows) = Len(ProductsOf(file.data).elems)
        /\ \A i \in 1..Len(out.rows) :
              LET product == ProductsOf(file.data).elems[i]
                  images == FieldOr(product, "images")
                  variants == FieldOr(product, "variants")
                  first(key) == IF IsList(variants) /\ Len(variants.elems) > 0
                                   /\ HasKey(variants.elems[1], key)
                                THEN GetKey(variants.elems[1], key) ELSE None
              IN  /\ out.rows[i]["images_count"]
                        = IntV(IF IsList(images) THEN Len(images.elems) ELSE 0)
                  /\ out.rows[i]["variants_count"]
                        = IntV(IF IsList(variants) THEN Len(variants.elems) ELSE 0)
                  /\ out.rows[i]["main_price"] = first("price")
                  /\ out.rows[i]["main_sku"] = first("sku")
                  /\ out.rows[i]["available"] = first("available"))

(***************************************************************************)
(* C4: every file json-to-csv_2.py writes has exactly the columns of       *)
(* column_order, in that order, in every row, whatever fields the variants *)
(* carried: a column no source row had holds the empty string, and no      *)
(* other column is written.                                                *)
(***************************************************************************)
\* the columns the variants and products of a document supply
SourceColumns(data) ==
    LET recs == VariantRecords(ProductsOf(data).elems, 1)
    IN  UNION {{recs[j].rec[k].k : k \in 1..Len(recs[j].rec)} : j \in 1..Len(recs)}
        \cup {"title", "vendor", "handle", "description"}

C4_FixedColumns ==
    (script = "json-to-csv_2" /\ out.written)
    => (/\ out.columns = column_order
        /\ \A i \in 1..Len(out.rows) :
              /\ DOMAIN out.rows[i] = {column_order[k] : k \in 1..Len(column_order)}
              /\ \A c \in DOMAIN out.rows[i] :
                    c \notin SourceColumns(file.data) => out.rows[i][c] = StrV(<<>>))

\* a written file whose variants had a field outside column_order and
\* lacked one of it
C4_Witness ==
    /\ script = "json-to-csv_2" /\ out.written
    /\ Len(out.rows) > 1
    /\ "variant_color" \in SourceColumns(file.data)
    /\ "variant_sku" \notin SourceColumns(file.data)
    /\ out.rows[1]["variant_sku"] = StrV(<<>>)

(***************************************************************************)
(* C5: collect_structure descends into a list through element 0 alone:     *)
(* the records do not change when every later element is replaced, and a   *)
(* non-empty list gives one list record (its length, "[N items]") at its   *)
(* path, followed by the records of element 0 under path/[0].              *)
(***************************************************************************)
RECURSIVE HeadOnly(_)
\* the value with every list element after the first replaced by null
HeadOnly(v) ==
    IF v.t = "dict"
    THEN DictV([k \in 1..Len(v.items) |-> KV(v.items[k].k, HeadOnly(v.items[k].v))])
    ELSE IF v.t = "list"
    THEN ListV([k \in 1..Len(v.elems) |-> IF k = 1 THEN HeadOnly(v.elems[1]) ELSE None])
    ELSE v

\* the non-empty lists that are fields of a mapping
ListFields(v) ==
    IF v.t # "dict" THEN {}
    ELSE {k \in 1..Len(v.items) : IsList(v.items[k].v) /\ Len(v.items[k].v.elems) > 0}

C5_FirstElementOnly ==
    Analysed
    => (/\ out.rows = collect_structure(HeadOnly(FirstProduct(file)), "", <<>>)
        /\ \A k \in ListFields(FirstProduct(file)) :
              LET item == FirstProduct(file).items[k]
                  n == Len(item.v.elems)
                  at == {r \in 1..Len(out.rows) : out.rows[r].path = item.k}
                  inner == collect_structure(item.v.elems[1], item.k \o "/[0]", <<>>)
              IN  /\ Cardinality(at) = 1
                  /\ \A r \in at :
                        /\ out.rows[r].type = "list"
                        /\ out.rows[r].length = IntV(n)
                        /\ out.rows[r].example
                              = <<"[">> \o Digits(n) \o <<" ", "i", "t", "e", "m", "s", "]">>
                        /\ SubSeq(out.rows, r + 1, r + Len(inner)) = inner)

\* a structure taken from a product with a list whose later elements
\* differ from the first
C5_Witness ==
    /\ Analysed
    /\ \E k \in ListFields(FirstProduct(file)) :
          LET l == FirstProduct(file).items[k].v
          IN  Len(l.elems) > 1 /\ l.elems[2] # l.elems[1] /\ l.elems[2].t = "dict"

(***************************************************************************)
(* C6: collect_structure gives no record for a mapping itself: a value of  *)
(* nothing but empty mappings gives no record at all, and such a value     *)
(* under a key of a product gives no record at that key and leaves the     *)
(* records of the other keys as they are without it.                       *)
(***************************************************************************)
RECURSIVE Vacuous(_)
\* a mapping whose leaves are all empty mappings
Vacuous(v) == v.t = "dict" /\ \A k \in 1..Len(v.items) : Vacuous(v.items[k].v)

\* the mapping without its k-th item
WithoutItem(v, k) == DictV(SubSeq(v.items, 1, k - 1) \o SubSeq(v.items, k + 1, Len(v.items)))

C6_EmptyMappingNoRecord ==
    Analysed
    => (/\ Vacuous(FirstProduct(file)) => out.rows = <<>>
        /\ FirstProduct(file).t = "dict" =>
              \A k \in 1..Len(FirstProduct(file).items) :
                  Vacuous(FirstProduct(file).items[k].v) =>
                      /\ \A r \in 1..Len(out.rows) :
                            out.rows[r].path # FirstProduct(file).items[k].k
                      /\ out.rows
                            = collect_structure(WithoutItem(FirstProduct(file), k), "", <<>>))

\* a structure with records, taken from a product that holds a nested
\* empty mapping beside other fields
C6_Witness ==
    /\ Analysed
    /\ Len(out.rows) > 0
    /\ FirstProduct(file).t = "dict"
    /\ \E k \in 1..Len(FirstProduct(file).items) :
          /\ Vacuous(FirstProduct(file).items[k].v)
          /\ Len(FirstProduct(file).items[k].v.items) > 0

(***************************************************************************)
(* C7: the example of a scalar record is the value's string form when that *)
(* has at most 100 characters, else its first 97 characters and "...": it  *)
(* never exceeds 100 characters, has exactly 100 when truncated, and a     *)
(* form of exactly 100 characters is kept whole.                           *)
(***************************************************************************)
ScalarFields(v) ==
    IF v.t # "dict" THEN {}
    ELSE {k \in 1..Len(v.items) : v.items[k].v.t \in {"str", "int", "bool", "NoneType"}}

C7_ExampleTruncation ==
    Analysed
    => (/\ \A r \in 1..Len(out.rows) : Len(out.rows[r].example) <= 100
        /\ \A k \in ScalarFields(FirstProduct(file)) :
              LET item == FirstProduct(file).items[k]
                  form == PyStr(item.v)
              IN  \E r \in 1..Len(out.rows) :
                      /\ out.rows[r].path = item.k
                      /\ out.rows[r].type = item.v.t
                      /\ IF Len(form) <= 100
                         THEN out.rows[r].example = form
                         ELSE /\ out.rows[r].example
                                    = SubSeq(form, 1, 97) \o <<".", ".", ".">>
                              /\ Len(out.rows[r].example) = 100)

\* a structure with the record of a 150-character string
C7_Witness ==
    /\ Analysed
    /\ \E k \in ScalarFields(FirstProduct(file)) :
          Len(PyStr(FirstProduct(file).items[k].v)) = 150
    /\ \E r \in 1..Len(out.rows) :
          Len(out.rows[r].example) = 100 /\ out.rows[r].example[100] = "."

(***************************************************************************)
(* C8: the text either stripper returns holds no HTML tag and no raw HTML  *)
(* entity code.                                                            *)
(***************************************************************************)
C8_StrippedTextIsClean ==
    /\ (script = "json-to-csv_1" /\ out.written /\ "description_plain" \in DOMAIN out.rows[1])
       => \A i \in 1..Len(out.rows) :
              LET text == out.rows[i]["description_plain"].s
              IN  ~HasTag(text) /\ ~HasEntity(text)
    /\ (script = "json-to-csv_2" /\ out.written)
       => \A i \in 1..Len(out.rows) :
              LET cell == out.rows[i]["description"]
              IN  cell.t = "str" => (~HasTag(cell.s) /\ ~HasEntity(cell.s))

(***************************************************************************)
(* C9: the stripper gives the empty string for null, non-string and empty  *)
(* input: a product whose body_html is one of these has an empty-string    *)
(* description in both modes.                                              *)
(***************************************************************************)
C9_NoTextGivesEmpty ==
    /\ (script = "json-to-csv_1" /\ out.written /\ "description_plain" \in DOMAIN out.rows[1])
       => \A i \in 1..Len(out.rows) :
              NoText(out.rows[i]["body_html"])
              => out.rows[i]["description_plain"] = StrV(<<>>)
    /\ (script = "json-to-csv_2" /\ out.written)
       => \A i \in 1..Len(out.rows) :
              (\A q \in 1..Len(GetKey(file.data, "products").elems) :
                   NoText(GetKey(GetKey(file.data, "products").elems[q], "body_html")))
              => out.rows[i]["description"] = StrV(<<>>)

(***************************************************************************)
(* C10: analyse-json_3.py carries nothing from one file to the next: what  *)
(* an iteration writes is collect_structure of the first product of its    *)
(* own file alone, after any files before it.                              *)
(***************************************************************************)
C10_NoCarryOver ==
    (script = "analyse-json_3" /\ idx > 0)
    => (/\ out.written
           <=> (/\ file.ok /\ ProductsOrSelf(file.data).t = "list"
                /\ Len(ProductsOrSelf(file.data).elems) > 0)
        /\ out.written => out.rows = collect_structure(FirstProduct(file), "", <<>>))

\* the second file of a run gave records
C10_Witness == Analysed /\ idx > 1 /\ Len(out.rows) > 0
====
